---------------------------- MODULE Spec2Model ----------------------------
(***************************************************************************)
(* A model of game_view.py (LostKit): the protected-surface detector, the  *)
(* navigation lock of GamePage and GameViewWidget, the console-message     *)
(* bridge that feeds the click log, screenshot capture, download           *)
(* redirection, zoom, cleanup, script installation and hook injection.     *)
(*                                                                         *)
(* Strings are sequences of one-character strings, so that lower(),        *)
(* startswith(), endswith(), split(), lstrip() and strip() are computed    *)
(* as Python computes them.                                                *)
(***************************************************************************)
EXTENDS Integers, Sequences, FiniteSets, TLC

VARIABLES
    url,                    \* QWebEnginePage.url(): the page's current URL
    histLen,                \* number of entries of the page's session history
    histIdx,                \* position of the current entry, 1..histLen
    backEnabled,            \* enabled flag of the page's Back web action
    pageHasView,            \* whether the binding's QWebEnginePage offers view()
    blocked_back_patterns,  \* GamePage._blocked_back_patterns
    screenshot_handler,     \* GamePage._screenshot_handler
    click_log_handler,      \* GamePage._click_log_handler
    click_logging_enabled,  \* GameViewWidget.click_logging_enabled
    click_log_to_file,      \* GameViewWidget.click_log_to_file
    screenshot_hotkey_enabled,  \* GameViewWidget.screenshot_hotkey_enabled
    cache_path,             \* GameViewWidget.cache_path
    storage_path,           \* GameViewWidget.storage_path
    cacheDir,               \* entries held by the persistent cache directory
    storageDir,             \* entries held by the persistent storage directory
    cleanup_timer,          \* whether GameViewWidget.cleanup_timer is running
    hookTimers,             \* QTimer.singleShot calls waiting to fire
    zoom_factor,            \* GameViewWidget.zoom_factor, in hundredths
    viewZoom,               \* zoom factor applied to the view, in hundredths
    configZoom,             \* value saved under the config key "zoom_factor"
    jsPending,              \* runJavaScript calls whose callback is outstanding
    scripts,                \* names held by page().scripts()
    clicksFile,             \* content of logs/clicks.jsonl
    call                    \* the last handler call: inputs, pre-state, outcome

navVars == <<url, histLen, histIdx, backEnabled>>
pageVars == <<pageHasView, blocked_back_patterns, screenshot_handler, click_log_handler>>
toggleVars == <<click_logging_enabled, click_log_to_file, screenshot_hotkey_enabled>>
persistVars == <<cache_path, storage_path, cacheDir, storageDir>>
timerVars == <<cleanup_timer, hookTimers>>
widgetVars == <<toggleVars, persistVars, timerVars>>
zoomVars == <<zoom_factor, viewZoom, configZoom>>
vars == <<navVars, pageVars, widgetVars, zoomVars, jsPending, scripts, clicksFile, call>>

----------------------------------------------------------------------------
(* Python str operations *)

\* str.lower() on one character, for the letters the model's strings use
LowerChar(c) ==
    CASE c = "C" -> "c"
      [] c = "G" -> "g"
      [] c = "I" -> "i"
      [] c = "K" -> "k"
      [] c = "L" -> "l"
      [] c = "R" -> "r"
      [] c = "S" -> "s"
      [] c = "T" -> "t"
      [] c = "W" -> "w"
      [] OTHER -> c

\* s.lower()
Lower(s) == [i \in 1..Len(s) |-> LowerChar(s[i])]

\* s.startswith(p)
StartsWith(s, p) == Len(p) <= Len(s) /\ SubSeq(s, 1, Len(p)) = p

\* s.endswith(p)
EndsWith(s, p) == Len(p) <= Len(s) /\ SubSeq(s, Len(s) - Len(p) + 1, Len(s)) = p

RECURSIVE SplitFirst(_, _)
\* s.split(sep, 1)[0]: the part of s before the first sep, all of s without one
SplitFirst(s, sep) ==
    IF s = <<>> \/ Head(s) = sep THEN <<>>
    ELSE <<Head(s)>> \o SplitFirst(Tail(s), sep)

RECURSIVE LStrip(_, _)
\* s.lstrip(ch)
LStrip(s, ch) == IF s # <<>> /\ Head(s) = ch THEN LStrip(Tail(s), ch) ELSE s

----------------------------------------------------------------------------
(* String literals of the source *)

LostCityHost == <<"2","0","0","4",".","l","o","s","t","c","i","t","y",".","r","s">>
WorldHostSuffix == <<"-">> \o LostCityHost
ClientPath == <<"/","c","l","i","e","n","t">>
Rs2Path == <<"/","r","s","2",".","c","g","i">>
Https == <<"h","t","t","p","s">>
Http == <<"h","t","t","p">>
LostKitScheme == <<"l","o","s","t","k","i","t">>
TakeScreenshot == <<"t","a","k","e","-","s","c","r","e","e","n","s","h","o","t">>

----------------------------------------------------------------------------
(* QUrl values.  kind "none" is Python's None, "empty" the empty QUrl       *)
(* (falsy and not valid), "url" a QUrl with content.                        *)

QUrl(valid, scheme, host, port, path) ==
    [kind |-> "url", valid |-> valid, scheme |-> scheme, host |-> host,
     port |-> port, path |-> path]

NoneUrl == [kind |-> "none", valid |-> FALSE, scheme |-> <<>>, host |-> <<>>,
            port |-> <<>>, path |-> <<>>]

EmptyUrl == [kind |-> "empty", valid |-> FALSE, scheme |-> <<>>, host |-> <<>>,
             port |-> <<>>, path |-> <<>>]

\* _is_lostcity_game_client_url with the world-server rule dropped
IsClientBaseOnly(qurl) ==
    IF qurl.kind # "url" \/ ~qurl.valid THEN FALSE
    ELSE Lower(qurl.host) = LostCityHost /\ StartsWith(Lower(qurl.path), ClientPath)

\* _is_lostcity_game_client_url that accepts https URLs only
IsClientHttpsOnly(qurl) ==
    IF qurl.kind # "url" \/ ~qurl.valid THEN FALSE
    ELSE IF qurl.scheme # Https THEN FALSE
    ELSE LET host == Lower(qurl.host)
             path == Lower(qurl.path)
         IN  \/ (host = LostCityHost /\ StartsWith(path, ClientPath))
             \/ /\ EndsWith(host, WorldHostSuffix)
                /\ StartsWith(SplitFirst(host, "-"), <<"w">>)
                /\ StartsWith(path, Rs2Path)

\* _is_lostcity_game_client_url(qurl): True exactly for the game client
_is_lostcity_game_client_url(qurl) ==
    IF qurl.kind # "url" \/ ~qurl.valid THEN FALSE
    ELSE LET host == Lower(qurl.host)
             path == Lower(qurl.path)
         IN  IF host = LostCityHost /\ StartsWith(path, ClientPath) THEN TRUE
             ELSE IF EndsWith(host, WorldHostSuffix)
                  THEN LET prefix == SplitFirst(host, "-")
                       IN  IF StartsWith(prefix, <<"w">>) /\ StartsWith(path, Rs2Path)
                           THEN TRUE
                           ELSE FALSE
                  ELSE FALSE

----------------------------------------------------------------------------
(* Bounds of the model *)

\* most entries the session history is followed to
MaxHist == 3
\* most runJavaScript callbacks outstanding at once
MaxPending == 1

----------------------------------------------------------------------------
(* URLs the model navigates between *)

W2Host == <<"w","2">> \o WorldHostSuffix
OtherHost == <<"e",".","r","s">>

ClientUrl == QUrl(TRUE, Https, LostCityHost, <<>>, ClientPath)
HttpClientUrl == QUrl(TRUE, Http, LostCityHost, <<>>, <<"/","C","l","i","e","n","t">>)
WorldUrl == QUrl(TRUE, Https, W2Host, <<>>, Rs2Path)
HomeUrl == QUrl(TRUE, Https, LostCityHost, <<>>, <<"/">>)
OtherUrl == QUrl(TRUE, Https, OtherHost, <<>>, ClientPath)

\* lostkit://take-screenshot, the URL the injected script navigates to
ShotUrl == QUrl(TRUE, LostKitScheme, TakeScreenshot, <<>>, <<>>)
\* lostkit:/take-screenshot: no host, the target is in the path
ShotPathUrl == QUrl(TRUE, LostKitScheme, <<>>, <<>>, <<"/">> \o TakeScreenshot)
\* LostKit://Take-Screenshot, as written before any case folding
ShotUpperUrl == QUrl(TRUE, <<"L","o","s","t","K","i","t">>,
                     <<"T","a","k","e","-","S","c","r","e","e","n","s","h","o","t">>,
                     <<>>, <<>>)
\* lostkit://take: the custom scheme with another target
LostKitOtherUrl == QUrl(TRUE, LostKitScheme, <<"t","a","k","e">>, <<>>, <<>>)

\* URLs a page of the view can be at
PageUrls == {ClientUrl, HttpClientUrl, WorldUrl, HomeUrl, OtherUrl}
\* URLs a navigation request can carry
RequestUrls == PageUrls \cup {ShotUrl, ShotPathUrl, ShotUpperUrl, LostKitOtherUrl}

\* QUrl.toString(): scheme, authority when there is one, path
toString(qurl) ==
    IF qurl.kind # "url" THEN <<>>
    ELSE qurl.scheme \o <<":">>
         \o (IF qurl.host # <<>> THEN <<"/","/">> \o qurl.host ELSE <<>>)
         \o (IF qurl.port # <<>> THEN <<":">> \o qurl.port ELSE <<>>)
         \o qurl.path

\* the list GameViewWidget.__init__ hands to set_blocked_back_patterns
DefaultBlockedBackPatterns == {Https \o <<":","/","/">> \o LostCityHost \o ClientPath}

\* GamePage.set_blocked_back_patterns: the patterns, lower-cased
set_blocked_back_patterns(patterns) == {Lower(p) : p \in patterns}

----------------------------------------------------------------------------
(* The lock decisions *)

\* _is_navigation_mouse_button that knows the Back button alone
NavButtonBackOnly(button) == button = "BackButton"

\* the key test with the modifiers compared for equality, not masked
IsBackKeyExactAlt(key, mods) ==
    \/ key \in {"Key_Back", "Key_Backspace"}
    \/ (mods = {"Alt"} /\ key = "Key_Left")

\* _should_block_back_forward that goes by the host alone
BlockBackForwardByHost(current) ==
    pageHasView /\ current.valid /\ Lower(current.host) = LostCityHost

\* _should_block_navigation_buttons that never blocks
NeverBlockNavigationButtons(current_url) == FALSE

\* GameViewWidget._should_block_navigation_buttons, current_url = self.page().url()
_should_block_navigation_buttons(current_url) ==
    IF ~current_url.valid THEN FALSE
    ELSE IF _is_lostcity_game_client_url(current_url) THEN TRUE
    ELSE FALSE

\* GamePage._should_block_back_forward, current = view.url().  Where the
\* binding's QWebEnginePage has no view(), self.view() raises AttributeError
\* and the except branch returns False.
_should_block_back_forward(current) ==
    IF ~pageHasView THEN FALSE
    ELSE IF ~current.valid THEN FALSE
    ELSE IF _is_lostcity_game_client_url(current) THEN TRUE
    ELSE \E pattern \in blocked_back_patterns :
            StartsWith(Lower(toString(current)), pattern)

\* Qt.MouseButton by attribute name: XButton1 and XButton2 are the enum's
\* other names for BackButton and ForwardButton
MouseButton(name) ==
    CASE name = "XButton1" -> "BackButton"
      [] name = "XButton2" -> "ForwardButton"
      [] OTHER -> name

\* GameViewWidget._is_navigation_mouse_button
_is_navigation_mouse_button(button) ==
    LET navigation_buttons ==
            {MouseButton(name) :
                name \in {"BackButton", "ForwardButton", "XButton1", "XButton2"}}
    IN  \E btn \in navigation_buttons : button = btn

\* the key test of keyPressEvent and keyReleaseEvent
IsBackKey(key, mods) ==
    \/ key \in {"Key_Back", "Key_Backspace"}
    \/ ("Alt" \in mods /\ key = "Key_Left")

----------------------------------------------------------------------------
(* The record of a handler call: its inputs, the state it started from and  *)
(* what it did.                                                             *)

Call(op, arg) ==
    [op |-> op, arg |-> arg,
     url0 |-> url, idx0 |-> histIdx, zoom0 |-> zoom_factor, file0 |-> clicksFile,
     pending0 |-> jsPending,
     view0 |-> viewZoom, config0 |-> configZoom,
     ret |-> FALSE,       \* the value a pure function returned
     viewRet |-> FALSE,   \* the value of the view-level decision, when both are taken
     otherRet |-> FALSE,  \* the value returned for the second URL of a pair
     accepted |-> FALSE,  \* event.accept() was called
     super |-> FALSE,     \* the handler went on to its super() call
     trig |-> "none",     \* GamePage.triggerAction: none, blocked or super
     reqs |-> <<>>,       \* the acceptNavigationRequest calls made, with results
     shots |-> 0,         \* calls of the screenshot handler
     grabs |-> 0,         \* full-widget grabs performed (self.grab() calls)
     grabSaved |-> 0,     \* grabbed images saved
     canvas |-> 0,        \* canvas images saved
     clicks |-> <<>>,     \* payloads handed to the click-log handler
     download |-> <<>>,   \* the download item after on_download_requested
     lock |-> <<>>,       \* what _on_url_changed did to the history and Back
     zoomSet |-> <<>>,    \* factors on_load_finished called setZoomFactor with
     injected |-> 0,      \* scripts inject_screenshot_hook ran
     timers0 |-> hookTimers,
     emitted |-> <<>>]    \* values zoom_changed was emitted with

\* no handler is running: control is in the Qt event loop, which runs one
\* handler at a time
Idle == call.op = "idle"

\* a handler call that leaves the program's state as it was
Done(c) ==
    /\ call' = c
    /\ UNCHANGED <<navVars, pageVars, widgetVars, zoomVars, jsPending, scripts,
                   clicksFile>>

Min(a, b) == IF a <= b THEN a ELSE b

----------------------------------------------------------------------------
(* GamePage *)

\* the target taken from the host alone
TargetHostOnly(u) == u.host

\* the target of a custom-scheme request: url.host() or url.path().lstrip("/")
Target(u) == IF u.host # <<>> THEN u.host ELSE LStrip(u.path, "/")

\* GamePage.acceptNavigationRequest: the value returned, whether super() was
\* reached and whether the screenshot handler was called
acceptNavigationRequest(u, nav_type, is_main_frame) ==
    IF /\ Lower(u.scheme) = LostKitScheme
       /\ Target(u) # <<>>
       /\ StartsWith(Lower(Target(u)), TakeScreenshot)
    THEN [ret |-> FALSE, super |-> FALSE, shot |-> screenshot_handler # "None"]
    ELSE IF /\ nav_type = "NavigationTypeBackForward"
            /\ _should_block_back_forward(url)
         THEN [ret |-> FALSE, super |-> FALSE, shot |-> FALSE]
         ELSE [ret |-> TRUE, super |-> TRUE, shot |-> FALSE]

\* _apply_game_nav_lock that disables Back on the client and leaves the
\* history as it is
ApplyNavLockKeepsHistory(current, hist) ==
    IF ~_should_block_navigation_buttons(current)
    THEN [hist EXCEPT !.back = TRUE, !.did = <<"Back.setEnabled(True)">>]
    ELSE [hist EXCEPT !.back = FALSE, !.did = <<"Back.setEnabled(False)">>]

\* GameViewWidget._apply_game_nav_lock, run by _on_url_changed when the page
\* has moved to `current`, the history then being `hist`: the history and the
\* Back action afterwards, and the calls made on them, in order
_apply_game_nav_lock(current, hist) ==
    IF ~_should_block_navigation_buttons(current)
    THEN [hist EXCEPT !.back = TRUE, !.did = <<"Back.setEnabled(True)">>]
    ELSE [len |-> 1, idx |-> 1, back |-> FALSE,
          did |-> <<"history.clear()", "Back.setEnabled(False)">>]

\* the engine loads only web URLs; a custom-scheme request it was allowed to
\* follow leaves the page where it is
Committable(u) == u.scheme \in {Http, Https}

\* The engine after acceptNavigationRequest(u, nav_type, is_main_frame)
\* returned ret: the history entry it adds or moves to (d entries away for a
\* history navigation), the URL of the page, and _on_url_changed when that
\* URL changed.
EngineNavigate(u, nav_type, is_main_frame, d, ret) ==
    LET here == [len |-> histLen, idx |-> histIdx, back |-> backEnabled, did |-> <<>>]
        moved == IF nav_type = "NavigationTypeBackForward"
                 THEN [here EXCEPT !.idx = histIdx + d]
                 ELSE IF nav_type = "NavigationTypeReload" THEN here
                 ELSE [here EXCEPT !.idx = Min(histIdx + 1, MaxHist),
                                   !.len = Min(histIdx + 1, MaxHist)]
        newUrl == IF is_main_frame THEN u ELSE url
    IN  IF ~ret \/ ~Committable(u) THEN [url |-> url, hist |-> here]
        ELSE IF newUrl # url
             THEN [url |-> newUrl, hist |-> _apply_game_nav_lock(newUrl, moved)]
             ELSE [url |-> url, hist |-> moved]

\* what self.grab() and pm.save() of _fallback_grab_to_file can come to
GrabOutcomes == {"saved", "null", "savefail", "raises"}

\* GameViewWidget._fallback_grab_to_file: one self.grab(), and the image saved
\* when the pixmap is not null and pm.save() succeeds; never raises
_fallback_grab_to_file(pm) ==
    [grabs |-> 1, saved |-> IF pm = "saved" THEN 1 ELSE 0]

\* GameViewWidget.handle_screenshot_request -> capture_canvas_to_file: the
\* script is started (its callback then outstanding) or starting it raised
\* and the fallback grab ran
HandleScreenshot(shot, started) ==
    /\ (shot /\ started) => jsPending < MaxPending
    /\ ~shot => started
    /\ jsPending' = IF shot /\ started THEN jsPending + 1 ELSE jsPending

\* one acceptNavigationRequest call by the engine and what follows from it,
\* within the handler call (op, arg) that reached GamePage.triggerAction as trig
Request(op, arg, trig, u, nav_type, is_main_frame, d) ==
    \E started \in BOOLEAN, pm \in GrabOutcomes :
        LET r == acceptNavigationRequest(u, nav_type, is_main_frame)
            after == EngineNavigate(u, nav_type, is_main_frame, d, r.ret)
            fell == r.shot /\ ~started
            fb == _fallback_grab_to_file(pm)
        IN  /\ HandleScreenshot(r.shot, started)
            /\ ~fell => pm = "saved"
            /\ url' = after.url
            /\ histLen' = after.hist.len
            /\ histIdx' = after.hist.idx
            /\ backEnabled' = after.hist.back
            /\ call' = [Call(op, arg) EXCEPT
                          !.super = IF op = "acceptNavigationRequest" THEN r.super
                                    ELSE TRUE,
                          !.trig = trig,
                          !.reqs = <<[url |-> u, type |-> nav_type,
                                      main |-> is_main_frame, ret |-> r.ret,
                                      super |-> r.super]>>,
                          !.lock = after.hist.did,
                          !.shots = IF r.shot THEN 1 ELSE 0,
                          !.grabs = IF fell THEN fb.grabs ELSE 0,
                          !.grabSaved = IF fell THEN fb.saved ELSE 0]
            /\ UNCHANGED <<pageVars, widgetVars, zoomVars, scripts, clicksFile>>

\* the engine moves d entries through the session history: it asks
\* acceptNavigationRequest for the entry's URL with NavigationTypeBackForward;
\* without such an entry nothing happens
HistoryGo(op, arg, trig, d) ==
    IF histIdx + d >= 1 /\ histIdx + d <= histLen
    THEN \E u \in PageUrls, is_main_frame \in BOOLEAN :
            Request(op, arg, trig, u, "NavigationTypeBackForward", is_main_frame, d)
    ELSE Done([Call(op, arg) EXCEPT !.super = TRUE, !.trig = trig])

\* GamePage.triggerAction(action), within the handler call (op, arg)
triggerAction(op, arg, action) ==
    IF action = "Back" /\ _should_block_back_forward(url)
    THEN Done([Call(op, arg) EXCEPT !.super = (op # "triggerAction"),
                                    !.trig = "blocked"])
    ELSE CASE action = "Back" -> HistoryGo(op, arg, "super", -1)
           [] action = "Forward" -> HistoryGo(op, arg, "super", 1)
           [] OTHER -> Done([Call(op, arg) EXCEPT !.super = TRUE, !.trig = "super"])

----------------------------------------------------------------------------
(* GameViewWidget: navigation *)

\* GameViewWidget.back: super().back() is QWebEngineView.back(), which calls
\* page().triggerAction(Back)
back ==
    /\ Idle
    /\ IF _should_block_navigation_buttons(url)
       THEN Done(Call("back", <<>>))
       ELSE triggerAction("back", <<>>, "Back")

\* GameViewWidget.forward
forward ==
    /\ Idle
    /\ IF _should_block_navigation_buttons(url)
       THEN Done(Call("forward", <<>>))
       ELSE triggerAction("forward", <<>>, "Forward")

\* GamePage.triggerAction called by the engine or a menu
TriggerAction ==
    \E action \in {"Back", "Forward", "Stop"} :
        Idle /\ triggerAction("triggerAction", <<action>>, action)

\* a history move the page's script asks the engine for (history.back(),
\* history.forward()), which passes neither view.back() nor triggerAction
ScriptHistoryGo ==
    \E d \in {-1, 1} : Idle /\ HistoryGo("history.go", <<d>>, "none", d)

\* the engine asks acceptNavigationRequest about a new navigation: a clicked
\* link, setUrl, a script, a reload of the current page
NavigationRequest ==
    \E u \in RequestUrls, is_main_frame \in BOOLEAN,
       nav_type \in {"NavigationTypeLinkClicked", "NavigationTypeTyped",
                     "NavigationTypeReload", "NavigationTypeOther"} :
        /\ Idle
        /\ nav_type = "NavigationTypeReload" => (u = url /\ is_main_frame)
        /\ Request("acceptNavigationRequest", <<u, nav_type, is_main_frame>>,
                   "none", u, nav_type, is_main_frame, 0)

ErrMarker == <<"_","_","E","R","R","_","_",":">>
Base64Marker == <<"b","a","s","e","6","4",",">>
DataScheme == <<"d","a","t","a",":">>

\* s.find(p): the 0-based index of the first occurrence of p in s, or -1
Find(s, p) ==
    LET at == {i \in 1..(Len(s) - Len(p) + 1) : SubSeq(s, i, i + Len(p) - 1) = p}
    IN  IF at = {} THEN -1 ELSE (CHOOSE i \in at : \A j \in at : i <= j) - 1

\* the base64 digits the model's results use
B64Digits == {"A", "B", "+", "/"}

\* base64.b64decode(b64) with validate off: characters outside the alphabet
\* are dropped, the rest must be digits followed by at most two "=" making
\* whole groups of four; the number of bytes decoded, or -1 for binascii.Error
b64decode(b64) ==
    LET kept == SelectSeq(b64, LAMBDA c : c \in B64Digits \cup {"="})
        digits == SelectSeq(kept, LAMBDA c : c \in B64Digits)
        pad == Len(kept) - Len(digits)
    IN  IF /\ SubSeq(kept, 1, Len(digits)) = digits
           /\ pad <= 2
           /\ Len(kept) % 4 = 0
           /\ (pad > 0 => Len(digits) % 4 = 4 - pad)
        THEN (Len(digits) * 6) \div 8
        ELSE -1

\* a value runJavaScript hands to its callback: a str, or something else
\* (None, a number, a dict)
JsStr(text) == [isStr |-> TRUE, text |-> text]
JsNone == [isStr |-> FALSE, text |-> <<>>]

\* the results the model's script comes back with
JsResults ==
    {JsNone,
     JsStr(<<>>),
     JsStr(ErrMarker \o <<"x">>),
     JsStr(ErrMarker \o Base64Marker \o <<"A","A","A","A">>),
     JsStr(<<"x">> \o ErrMarker \o Base64Marker \o <<"A","A","A","A">>),
     JsStr(DataScheme \o <<",","A","A","A","A">>),
     JsStr(DataScheme \o <<"b","a","s","e","6","4","A","A","A","A">>),
     JsStr(DataScheme \o Base64Marker \o <<"A","A","A","A">>),
     JsStr(DataScheme \o Base64Marker \o <<"A","B","=","=">>),
     JsStr(DataScheme \o Base64Marker \o <<"A","\n","A","+","/">>),
     JsStr(DataScheme \o Base64Marker \o <<"A">>),
     JsStr(DataScheme \o Base64Marker \o <<"A","A","A">>),
     JsStr(DataScheme \o Base64Marker),
     JsStr(Base64Marker \o Base64Marker \o <<"A","A","=","=">>)}

\* _cb that does not look for the error marker
CbIgnoresErrMarker(result, writeOk) ==
    IF ~result.isStr THEN [canvas |-> 0, fallback |-> TRUE]
    ELSE LET idx == Find(result.text, Base64Marker)
         IN  IF idx = -1 THEN [canvas |-> 0, fallback |-> TRUE]
             ELSE LET b64 == SubSeq(result.text, idx + Len(Base64Marker) + 1,
                                    Len(result.text))
                  IN  IF b64decode(b64) = -1 \/ ~writeOk
                      THEN [canvas |-> 0, fallback |-> TRUE]
                      ELSE [canvas |-> 1, fallback |-> FALSE]

\* the completion callback _cb of capture_canvas_to_file: whether the canvas
\* image was saved and whether _fallback_grab_to_file was called; writeOk is
\* whether mkdir, open and write went through without raising
_cb(result, writeOk) ==
    IF ~result.isStr THEN [canvas |-> 0, fallback |-> TRUE]
    ELSE IF StartsWith(result.text, ErrMarker) THEN [canvas |-> 0, fallback |-> TRUE]
    ELSE LET idx == Find(result.text, Base64Marker)
         IN  IF idx = -1 THEN [canvas |-> 0, fallback |-> TRUE]
             ELSE LET b64 == SubSeq(result.text, idx + Len(Base64Marker) + 1,
                                    Len(result.text))
                  IN  IF b64decode(b64) = -1 \/ ~writeOk
                      THEN [canvas |-> 0, fallback |-> TRUE]
                      ELSE [canvas |-> 1, fallback |-> FALSE]

\* the engine calls the callback of an outstanding runJavaScript
CanvasCallback ==
    \E result \in JsResults, writeOk \in BOOLEAN, pm \in GrabOutcomes :
        LET r == _cb(result, writeOk)
            fb == _fallback_grab_to_file(pm)
        IN  /\ Idle
            /\ jsPending > 0
            /\ ~r.fallback => pm = "saved"
            /\ (r.fallback /\ _cb(result, TRUE).fallback) => writeOk
            /\ jsPending' = jsPending - 1
            /\ call' = [Call("_cb", <<result, writeOk, pm>>) EXCEPT
                          !.canvas = r.canvas,
                          !.grabs = IF r.fallback THEN fb.grabs ELSE 0,
                          !.grabSaved = IF r.fallback THEN fb.saved ELSE 0]
            /\ UNCHANGED <<navVars, pageVars, widgetVars, zoomVars, scripts,
                           clicksFile>>

----------------------------------------------------------------------------
(* GameViewWidget: mouse and key events *)

MouseEventTypes == {"MouseButtonPress", "MouseButtonRelease", "MouseButtonDblClick"}
Buttons == {"LeftButton", "RightButton", "MiddleButton", "BackButton",
            "ForwardButton", "ExtraButton3"}

\* mousePressEvent and mouseReleaseEvent: TRUE when the event is accepted
\* and kept from super()
mouseButtonEvent(button) ==
    _is_navigation_mouse_button(button) /\ _should_block_navigation_buttons(url)

\* GameViewWidget.event for a mouse event: it swallows the event itself, or
\* super().event() hands a press to mousePressEvent, a release to
\* mouseReleaseEvent and a double click to the default handler
event(type, button) ==
    IF _is_navigation_mouse_button(button) /\ _should_block_navigation_buttons(url)
    THEN Done([Call("event", <<type, button>>) EXCEPT !.accepted = TRUE])
    ELSE IF type # "MouseButtonDblClick" /\ mouseButtonEvent(button)
         THEN Done([Call("event", <<type, button>>) EXCEPT !.accepted = TRUE])
         ELSE Done([Call("event", <<type, button>>) EXCEPT !.super = TRUE])

MouseEvent ==
    \E type \in MouseEventTypes, button \in Buttons : Idle /\ event(type, button)

\* zoom factors are held in hundredths
ZoomDefault == 100
ZoomStep == 10
ZoomMin == 25
ZoomMax == 500
Max(a, b) == IF a >= b THEN a ELSE b

\* setZoomFactor that applies any factor
SetZoomFactorUnchecked(factor) == factor

\* QWebEngineView.setZoomFactor(factor): the view's zoom factor afterwards;
\* the engine ignores a factor outside 0.25..5.0
setZoomFactor(factor) ==
    IF ZoomMin <= factor /\ factor <= ZoomMax THEN factor ELSE viewZoom

\* the tail that the zoom operations share: self.zoom_factor = z,
\* setZoomFactor, config.set_config_value("zoom_factor", ...), zoom_changed.emit
ApplyZoom(c, z) ==
    /\ zoom_factor' = z
    /\ viewZoom' = setZoomFactor(z)
    /\ configZoom' = z
    /\ call' = [c EXCEPT !.emitted = <<z>>]
    /\ UNCHANGED <<navVars, pageVars, widgetVars, jsPending, scripts, clicksFile>>

\* a zoom shortcut: the shared tail, then event.accept()
SetZoom(c, z) == ApplyZoom([c EXCEPT !.accepted = TRUE], z)

\* zoom_out with the upper limit as well
ZoomOutClamped(factor) == Max(ZoomMin, Min(factor - ZoomStep, ZoomMax))

\* the factor zoom_in and Ctrl+Plus set
ZoomInFactor(factor) == Min(factor + ZoomStep, ZoomMax)

\* the factor zoom_out and Ctrl+Minus set
ZoomOutFactor(factor) == Max(factor - ZoomStep, ZoomMin)

\* the factor Ctrl+wheel sets
WheelFactor(factor, delta) ==
    LET stepped == IF delta > 0 THEN factor + ZoomStep ELSE factor - ZoomStep
    IN  Max(ZoomMin, Min(stepped, ZoomMax))

\* GameViewWidget.reset_zoom
reset_zoom == Idle /\ ApplyZoom(Call("reset_zoom", <<>>), ZoomDefault)

\* GameViewWidget.zoom_in
zoom_in == Idle /\ ApplyZoom(Call("zoom_in", <<>>), ZoomInFactor(zoom_factor))

\* GameViewWidget.zoom_out
zoom_out == Idle /\ ApplyZoom(Call("zoom_out", <<>>), ZoomOutFactor(zoom_factor))

\* event.key() of a wheel event: QWheelEvent has no key(), the call raises
\* AttributeError
WheelEventKey == "AttributeError"

\* GameViewWidget.wheelEvent.  The hotkey block comes first: with the hotkey
\* enabled and Ctrl and Shift held it compares event.key() with Key_S, and
\* what that raises is swallowed; then the zoom test.
wheelEvent(mods, delta) ==
    LET c == Call("wheelEvent", <<mods, delta>>)
        hotkey == /\ screenshot_hotkey_enabled
                  /\ "Ctrl" \in mods
                  /\ "Shift" \in mods
                  /\ WheelEventKey = "Key_S"
    IN  IF hotkey
        THEN \E started \in BOOLEAN, pm \in GrabOutcomes :
                LET fb == _fallback_grab_to_file(pm)
                IN  /\ HandleScreenshot(TRUE, started)
                    /\ started => pm = "saved"
                    /\ call' = [c EXCEPT !.accepted = TRUE,
                                         !.shots = 1,
                                         !.grabs = IF started THEN 0 ELSE fb.grabs,
                                         !.grabSaved = IF started THEN 0 ELSE fb.saved]
                    /\ UNCHANGED <<navVars, pageVars, widgetVars, zoomVars, scripts,
                                   clicksFile>>
        ELSE IF mods = {"Ctrl"}
             THEN SetZoom(c, WheelFactor(zoom_factor, delta))
             ELSE Done([c EXCEPT !.super = TRUE])

\* angleDelta().y() of the wheel events of the model
WheelDeltas == {-120, 0, 120}
WheelMods == SUBSET {"Ctrl", "Shift"}

WheelEvent ==
    \E mods \in WheelMods, delta \in WheelDeltas : Idle /\ wheelEvent(mods, delta)

\* GameViewWidget.keyPressEvent
keyPressEvent(key, mods) ==
    LET c == Call("keyPressEvent", <<key, mods>>)
    IN  IF _should_block_navigation_buttons(url) /\ IsBackKey(key, mods)
        THEN Done([c EXCEPT !.accepted = TRUE])
        ELSE IF mods = {"Ctrl"} /\ key = "Key_0"
             THEN SetZoom(c, ZoomDefault)
        ELSE IF mods = {"Ctrl"} /\ key \in {"Key_Plus", "Key_Equal"}
             THEN SetZoom(c, ZoomInFactor(zoom_factor))
        ELSE IF mods = {"Ctrl"} /\ key = "Key_Minus"
             THEN SetZoom(c, ZoomOutFactor(zoom_factor))
        ELSE Done([c EXCEPT !.super = TRUE])

\* GameViewWidget.keyReleaseEvent
keyReleaseEvent(key, mods) ==
    LET c == Call("keyReleaseEvent", <<key, mods>>)
    IN  IF _should_block_navigation_buttons(url) /\ IsBackKey(key, mods)
        THEN Done([c EXCEPT !.accepted = TRUE])
        ELSE Done([c EXCEPT !.super = TRUE])

\* the keys and modifiers the navigation model presses
NavKeys == {"Key_Back", "Key_Backspace", "Key_Left", "Key_0", "Key_A"}
NavMods == SUBSET {"Ctrl", "Alt"}

KeyPress ==
    \E key \in NavKeys, mods \in NavMods : Idle /\ keyPressEvent(key, mods)

KeyRelease ==
    \E key \in NavKeys, mods \in NavMods : Idle /\ keyReleaseEvent(key, mods)

\* the keys and modifiers the zoom model presses
ZoomKeys == {"Key_0", "Key_Plus", "Key_Equal", "Key_Minus", "Key_S"}
ZoomMods == SUBSET {"Ctrl", "Shift"}

ZoomKeyPress ==
    \E key \in ZoomKeys, mods \in ZoomMods : Idle /\ keyPressEvent(key, mods)

\* the handler returns and control is back in the event loop
Return ==
    /\ ~Idle
    /\ call' = Call("idle", <<>>)
    /\ UNCHANGED <<navVars, pageVars, widgetVars, zoomVars, jsPending, scripts,
                   clicksFile>>

----------------------------------------------------------------------------
(* The click log *)

\* longest text after the prefix in a console message of the model
MaxBody == 3
\* most characters logs/clicks.jsonl is followed to
MaxFile == 6

ClickPrefix == <<"@","@","C","L","I","C","K","@","@"," ">>
Whitespace == {" ", "\n", "\t"}

RECURSIVE LStripSpace(_)
\* s.lstrip()
LStripSpace(s) ==
    IF s # <<>> /\ Head(s) \in Whitespace THEN LStripSpace(Tail(s)) ELSE s

RECURSIVE RStripSpace(_)
\* s.rstrip()
RStripSpace(s) ==
    IF s # <<>> /\ s[Len(s)] \in Whitespace
    THEN RStripSpace(SubSeq(s, 1, Len(s) - 1))
    ELSE s

\* s.strip()
Strip(s) == RStripSpace(LStripSpace(s))

\* the texts of at most n characters over the alphabet
Texts(alphabet, n) == UNION {[1..k -> alphabet] : k \in 0..n}

Bodies == Texts({"a", " ", "\n"}, MaxBody)

\* console messages: click markers, plain texts, and near misses of the prefix
Messages ==
    {ClickPrefix \o b : b \in Bodies}
    \cup (Bodies \ {<<>>})
    \cup {<<"@","@","c","l","i","c","k","@","@"," ","a">>,
          <<"@","@","C","L","I","C","K","@","@","a">>,
          <<" ">> \o ClickPrefix \o <<"a">>}

\* _handle_click_log that ignores click_log_to_file
HandleClickLogAlwaysWrites(json_text, ioOk) ==
    IF ~ioOk THEN clicksFile
    ELSE clicksFile \o Strip(json_text) \o <<"\n">>

\* GameViewWidget._handle_click_log: the content of logs/clicks.jsonl after the
\* call; ioOk is whether mkdir, open and write went through without raising
_handle_click_log(json_text, ioOk) ==
    IF ~click_log_to_file THEN clicksFile
    ELSE IF ~ioOk THEN clicksFile
    ELSE clicksFile \o Strip(json_text) \o <<"\n">>

\* the payload cut one character early
PayloadKeepsSpace(message) == SubSeq(message, Len(ClickPrefix), Len(message))

\* message[len('@@CLICK@@ '):]
Payload(message) == SubSeq(message, Len(ClickPrefix) + 1, Len(message))

\* GamePage.javaScriptConsoleMessage
javaScriptConsoleMessage(message, ioOk) ==
    LET marked == StartsWith(message, ClickPrefix)
        forwarded == marked /\ click_log_handler # "None"
        after == IF forwarded THEN _handle_click_log(Payload(message), ioOk)
                 ELSE clicksFile
    IN  /\ Len(after) <= MaxFile
        /\ (~forwarded \/ ~click_log_to_file) => ioOk
        /\ clicksFile' = after
        /\ call' = [Call("javaScriptConsoleMessage", <<message, ioOk>>) EXCEPT
                      !.clicks = IF forwarded THEN <<Payload(message)>> ELSE <<>>,
                      !.super = TRUE]
        /\ UNCHANGED <<navVars, pageVars, widgetVars, zoomVars, jsPending, scripts>>

ConsoleMessage ==
    \E message \in Messages, ioOk \in BOOLEAN :
        Idle /\ javaScriptConsoleMessage(message, ioOk)

----------------------------------------------------------------------------
(* Downloads *)

\* Python's None, where a str is expected
None == <<"None">>

RECURSIVE basename(_)
\* os.path.basename(p): what follows the last "/"
basename(p) ==
    IF \E i \in 1..Len(p) : p[i] = "/"
    THEN basename(Tail(p))
    ELSE p

\* os.path.splitext(base)[1]: from the last "." on, unless only dots come
\* before it
splitext(base) ==
    LET dots == {i \in 1..Len(base) : base[i] = "."}
    IN  IF dots = {} THEN <<>>
        ELSE LET last == CHOOSE i \in dots : \A j \in dots : j <= i
             IN  IF \E j \in 1..(last - 1) : base[j] # "."
                 THEN SubSeq(base, last, Len(base))
                 ELSE <<>>

PngExt == <<".","p","n","g">>
LcPrefix == <<"L","C","_">>

\* ext of on_download_requested: the suffix of the suggested name, ".png"
\* without one
Extension(suggested) ==
    IF suggested # None /\ suggested # <<>>
    THEN LET suffix == splitext(basename(suggested))
         IN  IF suffix # <<>> THEN suffix ELSE PngExt
    ELSE PngExt

\* the name on_download_requested settles on: downloadFileName(), else
\* path(), else url().fileName(); each may be missing, raise or be empty
Suggested(download) ==
    IF download.downloadFileName # None /\ download.downloadFileName # <<>>
    THEN download.downloadFileName
    ELSE IF download.path # None /\ download.path # <<>> THEN download.path
    ELSE IF download.urlFileName # None /\ download.urlFileName # <<>>
         THEN download.urlFileName
    ELSE None

\* a download item as the profile hands it over: where it would go by
\* default, and no call made on it yet
Download(hasDirApi, hasPathApi, downloadFileName, path, urlFileName) ==
    [hasDirApi |-> hasDirApi, hasPathApi |-> hasPathApi,
     downloadFileName |-> downloadFileName, path |-> path,
     urlFileName |-> urlFileName,
     dir |-> "Downloads",
     name |-> IF downloadFileName = None THEN <<>> ELSE downloadFileName,
     log |-> <<>>]

\* one call on the download item, kept with the target the item has after it
Did(download, op, dir, name) ==
    [download EXCEPT !.dir = dir, !.name = name,
                     !.log = @ \o <<[op |-> op, dir |-> dir, name |-> name]>>]

\* the directory/file-name branch that accepts before it redirects
ApplyDirApiAcceptFirst(download, filename, fail) ==
    IF ~(download.hasDirApi) THEN [download |-> download, applied |-> FALSE]
    ELSE [download |-> Did(Did(download, "accept", download.dir, download.name),
                           "setDownloadDirectory", "LCScreenshots", filename),
          applied |-> TRUE]

\* on_download_requested, the directory/file-name branch: the item after it
\* and whether it was applied; fail is the call that raises, if any
ApplyDirApi(download, filename, fail) ==
    IF ~(download.hasDirApi) THEN [download |-> download, applied |-> FALSE]
    ELSE IF fail = "setDownloadDirectory"
         THEN [download |-> download, applied |-> FALSE]
    ELSE LET d1 == Did(download, "setDownloadDirectory", "LCScreenshots",
                       download.name)
         IN  IF fail = "setDownloadFileName"
             THEN [download |-> d1, applied |-> FALSE]
             ELSE LET d2 == Did(d1, "setDownloadFileName", d1.dir, filename)
                  IN  IF fail = "accept"
                      THEN [download |-> d2, applied |-> FALSE]
                      ELSE [download |-> Did(d2, "accept", d2.dir, d2.name),
                            applied |-> TRUE]

\* on_download_requested, the path branch
ApplyPathApi(download, filename, fail) ==
    IF ~(download.hasPathApi) THEN [download |-> download, applied |-> FALSE]
    ELSE IF fail = "setPath" THEN [download |-> download, applied |-> FALSE]
    ELSE LET d1 == Did(download, "setPath", "LCScreenshots", filename)
         IN  IF fail = "accept"
             THEN [download |-> d1, applied |-> FALSE]
             ELSE [download |-> Did(d1, "accept", d1.dir, d1.name),
                   applied |-> TRUE]

\* GameViewWidget.on_download_requested: the item after the handler, with
\* _lc_timestamp() being ts
on_download_requested(download, ts, fail) ==
    IF fail = "mkdir" THEN [download |-> download, applied |-> FALSE]
    ELSE LET filename == LcPrefix \o ts \o Extension(Suggested(download))
             first == ApplyDirApi(download, filename, fail)
         IN  IF first.applied THEN first
             ELSE ApplyPathApi(first.download, filename, fail)

\* names a download suggests
SuggestedNames ==
    {<<"s",".","j","p","g">>, <<"s">>, <<".","j">>, <<"s",".">>,
     <<"s",".","t",".","g","z">>, <<"d",".","x","/","s">>, <<>>, None}
\* what path() yields where the item has it
DownloadPaths == {<<"/","d","/","p",".","b","m","p">>, None}
\* what url().fileName() yields
UrlFileNames == {<<"u",".","g","i","f">>, <<>>, None}
\* values of _lc_timestamp()
Timestamps == {<<"t","1">>, <<"t","2">>}
\* the call that raises during the handler, if any
DownloadFailures == {"none", "mkdir", "setDownloadDirectory",
                     "setDownloadFileName", "setPath", "accept"}

\* the profile's downloadRequested signal calls on_download_requested
DownloadRequested ==
    \E hasDirApi \in BOOLEAN, hasPathApi \in BOOLEAN,
       downloadFileName \in SuggestedNames, path \in DownloadPaths,
       urlFileName \in UrlFileNames, ts \in Timestamps,
       fail \in DownloadFailures :
        LET download == Download(hasDirApi, hasPathApi, downloadFileName,
                                 path, urlFileName)
            r == on_download_requested(download, ts, fail)
        IN  /\ Idle
            /\ ~hasPathApi => path = None
            /\ Done([Call("on_download_requested", <<download, ts, fail>>) EXCEPT
                       !.download = r.download,
                       !.accepted = r.applied])

----------------------------------------------------------------------------
(* Cleanup and the persistent profile *)

\* most entries the persistent directories are followed to
MaxStored == 3

\* the engine writes the profile's HTTP cache and its cookies and local
\* storage under the paths __init__ gave it
EngineStores ==
    \E dir \in {"cache", "storage"} :
        /\ Idle
        /\ IF dir = "cache"
           THEN cacheDir < MaxStored /\ cacheDir' = cacheDir + 1
                /\ UNCHANGED storageDir
           ELSE storageDir < MaxStored /\ storageDir' = storageDir + 1
                /\ UNCHANGED cacheDir
        /\ call' = Call("store", <<dir>>)
        /\ UNCHANGED <<navVars, pageVars, toggleVars, cache_path, storage_path,
                       timerVars, zoomVars, jsPending, scripts, clicksFile>>

\* a cleanup_cache_files that empties the cache directory
CleanupCacheFilesRemovesCache ==
    /\ Idle
    /\ cacheDir' = 0
    /\ call' = Call("cleanup_cache_files", <<>>)
    /\ UNCHANGED <<navVars, pageVars, toggleVars, cache_path, storage_path,
                   storageDir, timerVars, zoomVars, jsPending, scripts, clicksFile>>

\* GameViewWidget.perform_cleanup, run by cleanup_timer: gc.collect() when
\* the resource_optimization setting is on
perform_cleanup ==
    \E resource_optimization \in BOOLEAN :
        /\ Idle
        /\ cleanup_timer
        /\ Done(Call("perform_cleanup", <<resource_optimization>>))

\* GameViewWidget.cleanup_cache_files: a message and nothing else
cleanup_cache_files ==
    /\ Idle
    /\ Done(Call("cleanup_cache_files", <<>>))

\* GameViewWidget.closeEvent: cleanup_timer.stop(), gc.collect(),
\* super().closeEvent(event)
closeEvent ==
    /\ Idle
    /\ cleanup_timer' = FALSE
    /\ call' = [Call("closeEvent", <<>>) EXCEPT !.super = TRUE]
    /\ UNCHANGED <<navVars, pageVars, toggleVars, persistVars, hookTimers, zoomVars,
                   jsPending, scripts, clicksFile>>

----------------------------------------------------------------------------
(* The page's script collection *)

\* most scripts the collection is followed to
MaxScripts == 5

\* hasattr(scripts, 'findScript'): findScript belongs to the same generation
\* of the binding as QWebEnginePage.view(); later ones have find() instead
scriptsHaveFindScript == pageHasView

\* scripts.remove(existing): the scripts equal to the one found are taken out
remove(collection, name) == SelectSeq(collection, LAMBDA n : n # name)

\* scripts.insert(script)
insert(collection, name) == Append(collection, name)

\* the tail of install_screenshot_script and install_click_logger_script:
\* remove the script found under the name, where findScript exists, then
\* insert the new one
InstallScript(op, name) ==
    /\ Len(scripts) < MaxScripts
    /\ scripts' = IF scriptsHaveFindScript
                  THEN insert(remove(scripts, name), name)
                  ELSE insert(scripts, name)
    /\ call' = Call(op, <<>>)
    /\ UNCHANGED <<navVars, pageVars, widgetVars, zoomVars, jsPending, clicksFile>>

\* GameViewWidget.install_screenshot_script
install_screenshot_script ==
    Idle /\ InstallScript("install_screenshot_script", "LostKitScreenshotHook")

\* GameViewWidget.install_click_logger_script
install_click_logger_script ==
    Idle /\ InstallScript("install_click_logger_script", "LostKitClickLogger")

----------------------------------------------------------------------------
(* Load completion and the injected screenshot hook *)

\* most QTimer.singleShot calls waiting at once
MaxTimers == 2

\* on_load_finished(True): setZoomFactor(self.zoom_factor), then
\* QTimer.singleShot(250, self.inject_screenshot_hook)
LoadSucceeded(c) ==
    /\ hookTimers < MaxTimers
    /\ viewZoom' = setZoomFactor(zoom_factor)
    /\ hookTimers' = hookTimers + 1
    /\ call' = [c EXCEPT !.zoomSet = <<zoom_factor>>]
    /\ UNCHANGED <<navVars, pageVars, toggleVars, persistVars, cleanup_timer,
                   zoom_factor, configZoom, jsPending, scripts, clicksFile>>

\* on_load_finished that does not look at ok
OnLoadFinishedIgnoresOk(ok) == LoadSucceeded(Call("on_load_finished", <<ok>>))

\* GameViewWidget.on_load_finished(ok)
on_load_finished(ok) ==
    IF ok
    THEN LoadSucceeded(Call("on_load_finished", <<ok>>))
    ELSE Done(Call("on_load_finished", <<ok>>))

\* the page's loadFinished signal
LoadFinished == \E ok \in BOOLEAN : Idle /\ on_load_finished(ok)

\* GameViewWidget.inject_screenshot_hook, called when a single-shot timer
\* fires: page().runJavaScript(script) on the game client, nothing elsewhere
inject_screenshot_hook ==
    /\ Idle
    /\ hookTimers > 0
    /\ hookTimers' = hookTimers - 1
    /\ call' = [Call("inject_screenshot_hook", <<>>) EXCEPT
                  !.injected = IF _should_block_navigation_buttons(url) THEN 1 ELSE 0]
    /\ UNCHANGED <<navVars, pageVars, toggleVars, persistVars, cleanup_timer,
                   zoomVars, jsPending, scripts, clicksFile>>

----------------------------------------------------------------------------
(* The detector applied to URLs *)

UrlHosts ==
    {LostCityHost, W2Host, WorldHostSuffix, OtherHost, <<>>,
     <<"2","0","0","4",".","L","o","s","t","C","i","t","y",".","r","s">>,
     <<"W","2">> \o WorldHostSuffix,
     <<"x","2">> \o WorldHostSuffix,
     <<"w","-","1">> \o WorldHostSuffix,
     <<"a","-","w","2">> \o WorldHostSuffix,
     <<"w","2">> \o LostCityHost,
     W2Host \o <<".","e",".","r","s">>}

UrlPaths ==
    {ClientPath, Rs2Path, <<>>, <<"/">>,
     <<"/","C","l","i","e","n","t">>,
     ClientPath \o <<"/","x">>,
     ClientPath \o <<"x">>,
     <<"/","c","l","i","e","n">>,
     <<"/","x">> \o ClientPath,
     <<"/","R","S","2",".","C","G","I">>,
     Rs2Path \o <<"/","a">>,
     <<"/","r","s","2">>}

UrlInputs ==
    {NoneUrl, EmptyUrl}
    \cup {QUrl(valid, Https, host, <<>>, path) :
            valid \in BOOLEAN, host \in UrlHosts, path \in UrlPaths}

\* a call of _is_lostcity_game_client_url
DetectUrl ==
    \E qurl \in UrlInputs :
        /\ Idle
        /\ Done([Call("_is_lostcity_game_client_url", <<qurl>>) EXCEPT
                   !.ret = _is_lostcity_game_client_url(qurl)])

\* a QUrl with a query and a fragment as well
QUrlWith(qurl, query, fragment) ==
    [kind |-> qurl.kind, valid |-> qurl.valid, scheme |-> qurl.scheme,
     host |-> qurl.host, port |-> qurl.port, path |-> qurl.path,
     query |-> query, fragment |-> fragment]

\* valid URLs that differ in scheme, port, query, fragment and letter case
PairUrls ==
    {QUrlWith(QUrl(TRUE, scheme, host, port, path), query, fragment) :
        scheme \in {Https, Http, LostKitScheme},
        host \in {LostCityHost, W2Host, OtherHost,
                  <<"2","0","0","4",".","L","o","s","t","C","i","t","y",".","r","s">>,
                  <<"W","2">> \o WorldHostSuffix},
        port \in {<<>>, <<"8","0","8","0">>},
        path \in {ClientPath, Rs2Path, <<"/">>,
                  <<"/","C","l","i","e","n","t">>,
                  <<"/","R","S","2",".","C","G","I">>},
        query \in {<<>>, <<"w","=","2">>},
        fragment \in {<<>>, <<"t">>}}

\* _is_lostcity_game_client_url called for two URLs with the same lower-cased
\* host and the same lower-cased path
DetectPair ==
    /\ Idle
    /\ \E a \in PairUrls, b \in PairUrls :
        /\ Lower(a.host) = Lower(b.host)
        /\ Lower(a.path) = Lower(b.path)
        /\ Done([Call("detect_pair", <<a, b>>) EXCEPT
                   !.ret = _is_lostcity_game_client_url(a),
                   !.otherRet = _is_lostcity_game_client_url(b)])

\* URLs the page and the view can be asked about: view.url() and
\* page().url() are QUrls, never None
LockUrls ==
    (UrlInputs \ {NoneUrl})
    \cup PageUrls
    \cup {QUrl(TRUE, Https, LostCityHost, <<"8","0","8","0">>, ClientPath),
          QUrl(TRUE, Http, W2Host, <<>>, Rs2Path)}

\* the two lock decisions taken for the same current URL
LockDecisions ==
    \E current \in LockUrls :
        /\ Idle
        /\ Done([Call("lock_decisions", <<current>>) EXCEPT
                   !.ret = _should_block_back_forward(current),
                   !.viewRet = _should_block_navigation_buttons(current)])

----------------------------------------------------------------------------
(* The state after GameViewWidget.__init__ *)

\* values config.get_config_value("zoom_factor", 1.0) can come back with: the
\* default, a factor saved earlier, and factors nothing in __init__ rules out
ConfigZoomValues == {ZoomDefault, 150, 520, 10}

Init ==
    /\ click_logging_enabled \in BOOLEAN
    /\ click_log_to_file \in BOOLEAN
    /\ pageHasView \in BOOLEAN
    /\ blocked_back_patterns = set_blocked_back_patterns(DefaultBlockedBackPatterns)
    /\ screenshot_handler = "handle_screenshot_request"
    /\ click_log_handler = IF click_logging_enabled THEN "_handle_click_log" ELSE "None"
    /\ url \in PageUrls \cup {EmptyUrl}
    /\ histLen = 1
    /\ histIdx = 1
    /\ backEnabled = FALSE
    /\ screenshot_hotkey_enabled \in BOOLEAN
    /\ cache_path = "game_cache"
    /\ storage_path = "game_profile"
    /\ cacheDir = 0
    /\ storageDir = 0
    /\ cleanup_timer = TRUE
    /\ hookTimers = 0
    /\ zoom_factor \in ConfigZoomValues
    /\ viewZoom = IF ZoomMin <= zoom_factor /\ zoom_factor <= ZoomMax
                  THEN zoom_factor ELSE ZoomDefault
    /\ configZoom = zoom_factor
    /\ jsPending = 0
    /\ scripts = IF click_logging_enabled
                 THEN <<"LostKitScreenshotHook", "LostKitClickLogger">>
                 ELSE <<"LostKitScreenshotHook">>
    /\ clicksFile = <<>>
    /\ call = Call("idle", <<>>)

\* The specifications below each start from the states of Init in which the
\* configuration values that none of their actions reads are at their
\* defaults.

\* for navigation: the hotkey toggle and an out-of-range zoom are not read
InitNav ==
    /\ Init
    /\ screenshot_hotkey_enabled
    /\ zoom_factor \in {ZoomDefault, 150}

\* for zoom: the click-log toggles and the binding's view() are not read
InitZoom ==
    /\ Init
    /\ click_logging_enabled
    /\ click_log_to_file
    /\ pageHasView

\* for cleanup: no toggle, URL or zoom factor is read
InitCleanup ==
    /\ InitZoom
    /\ screenshot_hotkey_enabled
    /\ url = ClientUrl
    /\ zoom_factor = ZoomDefault

\* for downloads: on_download_requested reads none of the widget's state
InitDownload == InitCleanup

\* for the detector on pairs: the detector reads its argument alone
InitPair == InitCleanup

\* for script installation: the binding and click_logging_enabled are read
InitScripts ==
    /\ InitNav
    /\ url = ClientUrl
    /\ zoom_factor = ZoomDefault

\* for page loads: the URL and the zoom factor are read
InitLoad ==
    /\ InitZoom
    /\ screenshot_hotkey_enabled

\* for the lock decisions: the binding and the blocked-back patterns are read
InitLock ==
    /\ InitScripts
    /\ click_logging_enabled
    /\ click_log_to_file

\* navigation, the navigation lock and the input events
Next ==
    \/ NavigationRequest
    \/ back
    \/ forward
    \/ TriggerAction
    \/ ScriptHistoryGo
    \/ CanvasCallback
    \/ MouseEvent
    \/ KeyPress
    \/ KeyRelease
    \/ Return

Spec == InitNav /\ [][Next]_vars

\* console messages and the click log
NextLog == ConsoleMessage \/ Return

SpecLog == InitNav /\ [][NextLog]_vars

\* downloads
NextDownload == DownloadRequested \/ Return

SpecDownload == InitDownload /\ [][NextDownload]_vars

\* the zoom operations
NextZoom ==
    \/ zoom_in
    \/ zoom_out
    \/ reset_zoom
    \/ WheelEvent
    \/ ZoomKeyPress
    \/ Return

SpecZoom == InitZoom /\ [][NextZoom]_vars

\* cleanup, next to an engine that keeps writing the profile
NextCleanup ==
    \/ perform_cleanup
    \/ cleanup_cache_files
    \/ closeEvent
    \/ EngineStores
    \/ Return

SpecCleanup == InitCleanup /\ [][NextCleanup]_vars

\* script installation
NextScripts ==
    \/ install_screenshot_script
    \/ install_click_logger_script
    \/ Return

SpecScripts == InitScripts /\ [][NextScripts]_vars

\* page loads, the delayed hook injection, and navigation in between
NextLoad ==
    \/ LoadFinished
    \/ inject_screenshot_hook
    \/ NavigationRequest
    \/ Return

SpecLoad == InitLoad /\ [][NextLoad]_vars

\* the two lock decisions side by side
NextLock == LockDecisions \/ Return

SpecLock == InitLock /\ [][NextLock]_vars

\* the detector on pairs of URLs
NextPair == DetectPair \/ Return

SpecPair == InitPair /\ [][NextPair]_vars

\* the detector on its own
NextUrl == DetectUrl \/ Return

SpecUrl == InitNav /\ [][NextUrl]_vars

----------------------------------------------------------------------------
(* Claims *)

\* the part of host before its first "-", when it has one
HasWPrefix(host) ==
    \E i \in 1..Len(host) :
        /\ host[i] = "-"
        /\ \A j \in 1..(i - 1) : host[j] # "-"
        /\ i > 1
        /\ host[1] = "w"

\* what C1 says the detector returns for qurl
ClientByRule(qurl) ==
    /\ qurl.kind = "url"
    /\ qurl.valid
    /\ \/ /\ Lower(qurl.host) = LostCityHost
          /\ StartsWith(Lower(qurl.path), ClientPath)
       \/ /\ EndsWith(Lower(qurl.host), WorldHostSuffix)
          /\ HasWPrefix(Lower(qurl.host))
          /\ StartsWith(Lower(qurl.path), Rs2Path)

\* C1: _is_lostcity_game_client_url returns True exactly for a valid URL that
\* is the base client (host 2004.lostcity.rs, path /client...) or a world
\* server (host w...-2004.lostcity.rs, path /rs2.cgi...), and False, without
\* raising, for None and for an invalid URL.
C1_DetectorFollowsRules ==
    call.op = "_is_lostcity_game_client_url" =>
        /\ call.ret \in BOOLEAN
        /\ call.ret = ClientByRule(call.arg[1])

C1_Witness ==
    /\ call.op = "_is_lostcity_game_client_url"
    /\ call.arg[1].host = <<"w","-","1">> \o WorldHostSuffix
    /\ call.arg[1].path = <<"/","R","S","2",".","C","G","I">>
    /\ call.ret

\* C2: on the game client, view.back() and view.forward() return without
\* reaching the engine: no triggerAction, no navigation request, and the URL
\* and the history position are as before the call.
C2_ViewBackForwardBlocked ==
    (call.op \in {"back", "forward"} /\ _is_lostcity_game_client_url(call.url0)) =>
        /\ ~call.super
        /\ call.trig = "none"
        /\ call.reqs = <<>>
        /\ url = call.url0
        /\ histIdx = call.idx0

C2_Witness ==
    /\ call.op = "back"
    /\ call.url0 = WorldUrl
    /\ call.idx0 > 1
    /\ ~call.super

\* the navigation side buttons C3 names
SideButtons == {"BackButton", "ForwardButton", MouseButton("XButton1"), MouseButton("XButton2")}

\* C3: on the game client a press, release or double click of a navigation
\* side button is accepted and kept from default handling; a mouse event of
\* any other button goes to default handling, on the client or off it.
C3_SideButtonsSwallowed ==
    call.op = "event" =>
        /\ (call.arg[2] \in SideButtons /\ _is_lostcity_game_client_url(call.url0))
              => (call.accepted /\ ~call.super)
        /\ call.arg[2] \notin SideButtons => (call.super /\ ~call.accepted)

C3_Witness ==
    /\ call.op = "event"
    /\ call.arg = <<"MouseButtonDblClick", "ForwardButton">>
    /\ call.url0 = ClientUrl
    /\ call.accepted

\* the back keys C4 and C5 name
BackKeyPressed(arg) ==
    \/ arg[1] \in {"Key_Back", "Key_Backspace"}
    \/ (arg[1] = "Key_Left" /\ "Alt" \in arg[2])

\* C4: off the protected surface nothing is suppressed: view.back(),
\* view.forward(), back/forward requests to acceptNavigationRequest,
\* triggerAction(Back), side-button mouse events and the back keys all go on
\* to the engine's default handling.
C4_NothingBlockedOffSurface ==
    ~_is_lostcity_game_client_url(call.url0) =>
        /\ call.op \in {"back", "forward"} => (call.super /\ call.trig = "super")
        /\ (call.op = "triggerAction" /\ call.arg = <<"Back">>) => call.trig = "super"
        /\ \A i \in DOMAIN call.reqs :
              call.reqs[i].type = "NavigationTypeBackForward"
                 => (call.reqs[i].ret /\ call.reqs[i].super)
        /\ call.op = "event" => (call.super /\ ~call.accepted)
        /\ (call.op \in {"keyPressEvent", "keyReleaseEvent"} /\ BackKeyPressed(call.arg))
              => (call.super /\ ~call.accepted)

C4_Witness ==
    /\ call.op = "back"
    /\ call.url0 = HomeUrl
    /\ pageHasView
    /\ call.reqs # <<>>
    /\ call.reqs[1].ret
    /\ url = ClientUrl

\* C5: on the game client every press and release of Key_Back, Key_Backspace
\* or Alt+Key_Left is accepted and swallowed: it does not reach default key
\* handling and the zoom factor stays as it was.
C5_BackKeysSwallowed ==
    (/\ call.op \in {"keyPressEvent", "keyReleaseEvent"}
     /\ _is_lostcity_game_client_url(call.url0)
     /\ BackKeyPressed(call.arg)) =>
        /\ call.accepted
        /\ ~call.super
        /\ zoom_factor = call.zoom0
        /\ viewZoom = call.zoom0
        /\ call.emitted = <<>>

C5_Witness ==
    /\ call.op = "keyPressEvent"
    /\ call.arg = <<"Key_Left", {"Ctrl", "Alt"}>>
    /\ call.url0 = HttpClientUrl
    /\ call.accepted

\* the page-level protection C6 names: the game client, or a URL starting
\* with a configured blocked-back prefix
PageProtected(current) ==
    \/ _is_lostcity_game_client_url(current)
    \/ \E pattern \in blocked_back_patterns :
          StartsWith(Lower(toString(current)), pattern)

\* C6: on a protected URL GamePage rejects every back/forward navigation
\* request and triggerAction(Back) returns without performing the action.
C6_PageBlocksBackForward ==
    PageProtected(call.url0) =>
        /\ \A i \in DOMAIN call.reqs :
              call.reqs[i].type = "NavigationTypeBackForward" => ~call.reqs[i].ret
        /\ (call.op = "triggerAction" /\ call.arg = <<"Back">>)
              => (call.trig = "blocked" /\ call.reqs = <<>>)

\* C7: a console message starting with "@@CLICK@@ " is handed to the click-log
\* handler, when one is set, exactly once and as the message without that
\* prefix, otherwise unchanged; a message without the prefix is not handed on.
C7_ClickMarkerForwarded ==
    call.op = "javaScriptConsoleMessage" =>
        LET message == call.arg[1]
        IN  /\ (StartsWith(message, ClickPrefix) /\ click_log_handler # "None")
                  => (Len(call.clicks) = 1 /\ ClickPrefix \o call.clicks[1] = message)
            /\ ~StartsWith(message, ClickPrefix) => call.clicks = <<>>

C7_Witness ==
    /\ call.op = "javaScriptConsoleMessage"
    /\ call.clicks = << <<"a", " ">> >>

\* the number of line feeds in s
LineFeeds(s) == Cardinality({i \in 1..Len(s) : s[i] = "\n"})

\* C8: with click logging and file logging on, each forwarded payload that is
\* written leaves logs/clicks.jsonl as its earlier content followed by exactly
\* one line.
C8_OneLinePerPayload ==
    (/\ call.op = "javaScriptConsoleMessage"
     /\ click_logging_enabled
     /\ click_log_to_file
     /\ call.clicks # <<>>
     /\ call.arg[2]) =>
        LET appended == SubSeq(clicksFile, Len(call.file0) + 1, Len(clicksFile))
        IN  /\ Len(clicksFile) > Len(call.file0)
            /\ SubSeq(clicksFile, 1, Len(call.file0)) = call.file0
            /\ appended[Len(appended)] = "\n"
            /\ LineFeeds(appended) = 1

\* C9: with click_logging_enabled or click_log_to_file off no console message
\* changes the click log file; with click_logging_enabled off the page has no
\* click-log handler and the click-logger script is not installed.
C9_DisabledLoggingWritesNothing ==
    /\ ((~click_logging_enabled \/ ~click_log_to_file)
          /\ call.op = "javaScriptConsoleMessage") => clicksFile = call.file0
    /\ ~click_logging_enabled =>
          /\ click_log_handler = "None"
          /\ \A i \in DOMAIN scripts : scripts[i] # "LostKitClickLogger"

C9_Witness ==
    /\ call.op = "javaScriptConsoleMessage"
    /\ click_logging_enabled
    /\ ~click_log_to_file
    /\ call.clicks = << <<"a">> >>
    /\ clicksFile = call.file0

\* the custom request C10 names: scheme lostkit in any case, and a target
\* (the host, or else the path without leading slashes) that starts with
\* take-screenshot
IsScreenshotRequest(u) ==
    /\ Lower(u.scheme) = LostKitScheme
    /\ \/ StartsWith(u.host, TakeScreenshot)
       \/ (u.host = <<>> /\ StartsWith(LStrip(u.path, "/"), TakeScreenshot))

\* C10: a lostkit take-screenshot request is rejected and calls the registered
\* screenshot handler exactly once, whatever the navigation type, in the main
\* frame and in subframes, on the protected surface and off it; without a
\* handler it is rejected all the same.
C10_ScreenshotRequestRejected ==
    \A i \in DOMAIN call.reqs :
        IsScreenshotRequest(call.reqs[i].url) =>
            /\ ~call.reqs[i].ret
            /\ call.shots = IF screenshot_handler # "None" THEN 1 ELSE 0

C10_Witness ==
    /\ call.op = "acceptNavigationRequest"
    /\ call.reqs[1].url = ShotPathUrl
    /\ ~call.reqs[1].main
    /\ call.reqs[1].type = "NavigationTypeLinkClicked"
    /\ call.url0 = HomeUrl
    /\ call.shots = 1

\* the result C11 calls good: a string that does not start with "__ERR__:",
\* contains "base64," and is decoded and written without error
CanvasResultGood(result, writeOk) ==
    /\ result.isStr
    /\ ~StartsWith(result.text, ErrMarker)
    /\ \E i \in 1..Len(result.text) :
          /\ i + Len(Base64Marker) - 1 <= Len(result.text)
          /\ SubSeq(result.text, i, i + Len(Base64Marker) - 1) = Base64Marker
          /\ \A j \in 1..(i - 1) :
                SubSeq(result.text, j, j + Len(Base64Marker) - 1) # Base64Marker
          /\ b64decode(SubSeq(result.text, i + Len(Base64Marker),
                              Len(result.text))) >= 0
    /\ writeOk

\* C11: for a screenshot request the canvas path and the fallback path are
\* exclusive and complete: a good script result saves the canvas image without
\* a full-widget grab; any other result, and a script that could not be
\* started, runs the full-widget grab exactly once and saves no canvas image;
\* a started script leaves exactly its callback outstanding.
C11_CanvasOrFallback ==
    /\ call.canvas + call.grabs <= 1
    /\ call.op = "_cb" =>
          IF CanvasResultGood(call.arg[1], call.arg[2])
          THEN call.canvas = 1 /\ call.grabs = 0
          ELSE call.canvas = 0 /\ call.grabs = 1
    /\ (call.op # "_cb" /\ call.shots = 1) =>
          /\ call.canvas = 0
          /\ \/ call.grabs = 1 /\ jsPending = call.pending0
             \/ call.grabs = 0 /\ jsPending = call.pending0 + 1
    /\ (call.op # "_cb" /\ call.shots = 0) => (call.grabs = 0 /\ call.canvas = 0)

C11_Witness ==
    /\ call.op = "_cb"
    /\ call.arg[1] = JsStr(<<"x">> \o ErrMarker \o Base64Marker \o <<"A","A","A","A">>)
    /\ call.canvas = 1
    /\ call.grabs = 0

\* the extension C12 names: the suffix of the suggested file name when it
\* has one, ".png" otherwise
ExpectedExtension(download) ==
    LET suggested == Suggested(download)
    IN  IF suggested = None THEN PngExt
        ELSE IF splitext(basename(suggested)) = <<>> THEN PngExt
        ELSE splitext(basename(suggested))

\* C12: a download is accepted only after it has been redirected: at every
\* accept() its directory is LCScreenshots and its file name is "LC_", the
\* timestamp and the extension (the suggested name's suffix, or ".png"); a
\* download with neither the directory/file-name API nor the path API is never
\* accepted.
C12_AcceptedDownloadsRedirected ==
    call.op = "on_download_requested" =>
        LET given == call.arg[1]
            log == call.download.log
        IN  /\ \A i \in DOMAIN log :
                  log[i].op = "accept" =>
                      /\ log[i].dir = "LCScreenshots"
                      /\ log[i].name = LcPrefix \o call.arg[2]
                                         \o ExpectedExtension(given)
                      /\ \E j \in 1..(i - 1) :
                            log[j].op \in {"setDownloadFileName", "setPath"}
            /\ (~given.hasDirApi /\ ~given.hasPathApi) =>
                  \A i \in DOMAIN log : log[i].op # "accept"
            /\ call.accepted => \E i \in DOMAIN log : log[i].op = "accept"

C12_Witness ==
    /\ call.op = "on_download_requested"
    /\ call.arg[1].downloadFileName = <<"s",".","t",".","g","z">>
    /\ call.arg[1].hasDirApi
    /\ call.arg[3] = "none"
    /\ call.accepted
    /\ call.download.name = LcPrefix \o <<"t","1">> \o <<".","g","z">>
    /\ call.download.dir = "LCScreenshots"

\* C13: the zoom factor is clamped: in every state that zoom_in, zoom_out,
\* reset_zoom, Ctrl+wheel, Ctrl+Plus/Equal, Ctrl+Minus and Ctrl+0 lead to from
\* the factor loaded from configuration, 0.25 <= zoom_factor <= 5.0.  It is
\* stated here for the states a zoom operation has just produced.
C13_ZoomClamped ==
    call.emitted # <<>> => (ZoomMin <= zoom_factor /\ zoom_factor <= ZoomMax)

\* the cleanup operations C14 names
CleanupOps == {"perform_cleanup", "cleanup_cache_files", "closeEvent"}

\* C14: cleanup never touches persistent data: no execution of
\* perform_cleanup, cleanup_cache_files or closeEvent, in any order and any
\* number of times, changes the persistent cache directory, the persistent
\* storage directory, or the stored cache_path and storage_path.
C14_CleanupKeepsPersistentData ==
    [][call'.op \in CleanupOps => UNCHANGED persistVars]_vars

C14_Witness ==
    /\ call.op = "closeEvent"
    /\ ~cleanup_timer
    /\ cacheDir > 0
    /\ storageDir > 0
    /\ cache_path = "game_cache"
    /\ storage_path = "game_profile"

\* C15: after a URL change handled by _on_url_changed the page's Back action
\* is enabled exactly when the new URL is not the game client, and a change
\* that lands on the game client clears the navigation history before it
\* disables the Back action.
C15_UrlChangeAppliesLock ==
    url # call.url0 =>
        /\ backEnabled = ~_is_lostcity_game_client_url(url)
        /\ IF _is_lostcity_game_client_url(url)
           THEN /\ call.lock = <<"history.clear()", "Back.setEnabled(False)">>
                /\ histLen = 1
                /\ histIdx = 1
           ELSE call.lock = <<"Back.setEnabled(True)">>

C15_Witness ==
    /\ call.url0 = HomeUrl
    /\ call.idx0 > 1
    /\ url = WorldUrl
    /\ histLen = 1
    /\ ~backEnabled
    /\ call.lock = <<"history.clear()", "Back.setEnabled(False)">>

\* the calls C16 counts as zoom operations
ZoomOperation(c) ==
    \/ c.op \in {"zoom_in", "zoom_out", "reset_zoom"}
    \/ (c.op = "wheelEvent" /\ c.arg[1] = {"Ctrl"})
    \/ /\ c.op = "keyPressEvent"
       /\ c.arg[2] = {"Ctrl"}
       /\ c.arg[1] \in {"Key_0", "Key_Plus", "Key_Equal", "Key_Minus"}

\* C16: after every zoom operation the zoom factor applied to the view, the
\* value saved under the config key "zoom_factor" and the in-memory
\* zoom_factor are equal, and zoom_changed was emitted once, with that value;
\* a wheel event whose modifiers are not exactly Ctrl leaves all three as they
\* were.
C16_ZoomValuesAgree ==
    /\ ZoomOperation(call) =>
          /\ viewZoom = zoom_factor
          /\ configZoom = zoom_factor
          /\ call.emitted = <<zoom_factor>>
    /\ (call.op = "wheelEvent" /\ call.arg[1] # {"Ctrl"}) =>
          /\ zoom_factor = call.zoom0
          /\ viewZoom = call.view0
          /\ configZoom = call.config0
          /\ call.emitted = <<>>

\* C17: with screenshot_hotkey_enabled true a Ctrl+Shift+S key press on the
\* game view calls handle_screenshot_request; with it false the hotkey
\* triggers no capture.
C17_HotkeyTakesScreenshot ==
    (call.op = "keyPressEvent" /\ call.arg = <<"Key_S", {"Ctrl", "Shift"}>>) =>
        call.shots = IF screenshot_hotkey_enabled THEN 1 ELSE 0

\* the number of scripts of the collection called name
Copies(name) == Cardinality({i \in DOMAIN scripts : scripts[i] = name})

\* C18: script installation keeps a single copy: after any number of calls of
\* install_screenshot_script and install_click_logger_script the page's script
\* collection holds exactly one script named LostKitScreenshotHook and at most
\* one named LostKitClickLogger.
C18_SingleScriptCopy ==
    /\ Copies("LostKitScreenshotHook") = 1
    /\ Copies("LostKitClickLogger") <= 1

\* C19: a failed load neither reapplies zoom nor schedules an injection; a
\* successful load calls setZoomFactor with the stored zoom factor and
\* schedules inject_screenshot_hook once; inject_screenshot_hook runs its
\* script only if the page's URL when the delayed call fires is the game
\* client, and does nothing otherwise.
C19_HookInjectedOnClientAfterLoad ==
    /\ (call.op = "on_load_finished" /\ ~call.arg[1]) =>
          /\ call.zoomSet = <<>>
          /\ viewZoom = call.view0
          /\ hookTimers = call.timers0
    /\ (call.op = "on_load_finished" /\ call.arg[1]) =>
          /\ call.zoomSet = <<zoom_factor>>
          /\ (ZoomMin <= zoom_factor /\ zoom_factor <= ZoomMax) => viewZoom = zoom_factor
          /\ hookTimers = call.timers0 + 1
    /\ call.op = "inject_screenshot_hook" =>
          /\ call.timers0 > 0
          /\ hookTimers = call.timers0 - 1
          /\ call.injected = IF _is_lostcity_game_client_url(url) THEN 1 ELSE 0
    /\ call.op \notin {"on_load_finished", "inject_screenshot_hook"} =>
          /\ call.injected = 0
          /\ hookTimers = call.timers0

C19_Witness ==
    /\ call.op = "inject_screenshot_hook"
    /\ url = HomeUrl
    /\ call.injected = 0
    /\ hookTimers = 1

\* C20: under the default configuration (the single blocked-back prefix
\* https://2004.lostcity.rs/client) GamePage._should_block_back_forward and
\* GameViewWidget._should_block_navigation_buttons return the same value for
\* every current URL.
C20_PageAndViewLockAgree ==
    (/\ call.op = "lock_decisions"
     /\ blocked_back_patterns = set_blocked_back_patterns(DefaultBlockedBackPatterns))
        => call.ret = call.viewRet

\* C21: the protected-surface decision depends only on the URL's host and
\* path: two valid URLs with the same lower-cased host and the same
\* lower-cased path get the same result from _is_lostcity_game_client_url,
\* whatever their scheme, port, query or fragment.
C21_DetectorReadsHostAndPathOnly ==
    (/\ call.op = "detect_pair"
     /\ call.arg[1].valid
     /\ call.arg[2].valid
     /\ Lower(call.arg[1].host) = Lower(call.arg[2].host)
     /\ Lower(call.arg[1].path) = Lower(call.arg[2].path))
        => call.ret = call.otherRet

C21_Witness ==
    /\ call.op = "detect_pair"
    /\ call.arg[1] = QUrlWith(QUrl(TRUE, Https, W2Host, <<>>, Rs2Path), <<>>, <<>>)
    /\ call.arg[2].scheme = LostKitScheme
    /\ call.arg[2].host = <<"W","2">> \o WorldHostSuffix
    /\ call.arg[2].port = <<"8","0","8","0">>
    /\ call.arg[2].path = <<"/","R","S","2",".","C","G","I">>
    /\ call.arg[2].query = <<"w","=","2">>
    /\ call.arg[2].fragment = <<"t">>
    /\ call.ret
    /\ call.otherRet

=============================================================================
